---- MODULE Spec2Model ----
(***************************************************************************)
(* The `build` command of preset-umi                                       *)
(* (src/packages/preset-umi/src/commands/build.ts, fn, lines 33-234) as a  *)
(* state machine: one action per statement group of fn, with every hook    *)
(* dispatch (api.applyPlugins) unfolded into its handler calls.            *)
(*                                                                         *)
(* api.applyPlugins, the registry it reads, getBabelOpts, getAssetsMap,    *)
(* getMarkupArgs and getMarkup live outside build.ts; they are modelled    *)
(* from the specification (sections 4.1, 4.2, 4.5, 6).                     *)
(***************************************************************************)
EXTENDS Integers, Sequences, FiniteSets, TLC

VARIABLES
  config,        \* api.config: [vite, mako, mpa]
  reactVersion,  \* api.appData.react?.version: NoVersion or a semver
  pc,            \* position of fn
  started,       \* steps of fn that have started, in order
  finished,      \* steps of fn that have finished, in order
  registered,    \* handlers of the registry met by the dispatches so far
  frame,         \* the latest applyPlugins call (Idle before the first)
  entry,         \* const entry (line 93)
  opts,          \* let opts (line 105, reassigned line 138)
  bundler,       \* const bundler (line 146)
  stats,         \* const stats (line 154)
  buildCalls,    \* arguments of the bundler.build calls made
  sizeReports,   \* arguments of the printFileSizesAfterBuild calls made
  markup,        \* finalMarkUpArgs (line 188) and the rendered default page
  htmlFiles,     \* let htmlFiles (line 176, reassigned line 204)
  writeIdx,      \* documents of htmlFiles the forEach has processed
  written,       \* writeFileSync calls that succeeded, in order
  failure,       \* the step whose error ended the run ("none" when none)
  closure,       \* the backend's latest call of a closure of opts
  inner          \* the applyPlugins call made by that closure

vars == <<config, reactVersion, pc, started, finished, registered, frame,
          entry, opts, bundler, stats, buildCalls, sizeReports, markup,
          htmlFiles, writeIdx, written, failure, closure, inner>>

(***************************************************************************)
(* Bounds of the model.                                                    *)
(***************************************************************************)
\* Handlers registered in the whole registry, over all hook keys.
MaxRegistered == 3
\* Handlers registered under one hook key.
MaxHandlers == 3

(***************************************************************************)
(* Values.  Every JavaScript value is a record, so that any two of them    *)
(* can be compared.                                                        *)
(***************************************************************************)
Undefined == [undefined |-> TRUE]

NoVersion == <<>>

\* A release <<major, minor, patch, 0>> or a prerelease of it <<.., 1>>.
ReactVersions ==
  { <<16, 14, 0, 0>>, <<17, 0, 0, 1>>, <<17, 0, 0, 0>>,
    <<17, 1, 0, 0>>, <<18, 2, 0, 0>> }

Threshold == <<17, 0, 0, 0>>

\* semver.compare: the main version number by number, then a prerelease
\* sorts before its release.
CompareMain(a, b) ==
  IF a[1] # b[1] THEN (IF a[1] < b[1] THEN -1 ELSE 1)
  ELSE IF a[2] # b[2] THEN (IF a[2] < b[2] THEN -1 ELSE 1)
  ELSE IF a[3] # b[3] THEN (IF a[3] < b[3] THEN -1 ELSE 1)
  ELSE 0

ComparePre(a, b) ==
  IF a[4] = b[4] THEN 0
  ELSE IF a[4] = 1 THEN -1
  ELSE 1

SemverCompare(a, b) ==
  IF CompareMain(a, b) # 0 THEN CompareMain(a, b) ELSE ComparePre(a, b)

SemverGte(a, b) == SemverCompare(a, b) >= 0

(***************************************************************************)
(* Hook registry and dispatcher (api.applyPlugins).                        *)
(***************************************************************************)
EventKeys ==
  { "onCheckPkgJSON", "onGenerateFiles", "onBeforeCompiler",
    "onBuildHtmlComplete" }

ModifyKeys ==
  { "modifyEntry", "modifyUniBundlerOpts", "modifyUniBundler",
    "modifyExportHTMLFiles" }

HookKeys == EventKeys \cup ModifyKeys

\* The keys the closures of opts dispatch on (lines 71-92, 122-128): each
\* closure dispatches on the key of its own name.
ClosureNames ==
  {"chainWebpack", "modifyWebpackConfig", "modifyViteConfig",
   "onBuildComplete"}

\* The application mode of a dispatch: chainWebpack names it (line 74), the
\* others get it by the key.
ModeOf(key) ==
  IF key \in EventKeys \cup {"onBuildComplete"} THEN "event" ELSE "modify"

\* What a registered handler does when called.  A handler of modifyUniBundler
\* returns a backend object; every other handler returns normally ("ok") or
\* throws ("fail").
Behaviours(key) ==
  IF key = "modifyUniBundler"
  THEN {"webpack", "vite", "mako", "fail"}
  ELSE {"ok", "fail"}

\* handlersFor(key): the registry is filled by plugin loading before fn runs
\* and is read-only during the run, and fn dispatches each of its keys once:
\* the handlers of a key are drawn when its dispatch reads them, in
\* registration order.  The handler at position i is identified by i; room is
\* what the bound on the registry's size leaves for this key.
HandlerLists(key, room) ==
  UNION { [1..n -> Behaviours(key)] :
            n \in 0..(IF room < MaxHandlers THEN room ELSE MaxHandlers) }

Idle ==
  [ key |-> "none", mode |-> "none", init |-> Undefined, args |-> Undefined,
    hs |-> <<>>, done |-> 0, acc |-> Undefined, running |-> FALSE,
    status |-> "idle", calls |-> <<>>, rets |-> <<>> ]

\* The value a MODIFY handler returns for accumulator acc: the accumulator
\* with the handler's own change.  A handler of modifyExportHTMLFiles adds one
\* document, at a path of its own.
HandlerResult(key, id, beh, acc) ==
  CASE key = "modifyUniBundler" -> [backend |-> beh]
    [] key = "modifyExportHTMLFiles" ->
         [ docs |-> Append(acc.docs,
                           [ path |-> "page" \o ToString(id) \o ".html",
                             content |-> [plugin |-> id] ]) ]
    [] OTHER -> [acc EXCEPT !.edits = Append(@, id)]

\* applyPlugins({key, initialValue, args}) with the handlers hs: the call as
\* it stands before its first handler runs.
ApplyPlugins(key, init, args, hs) ==
  [ key |-> key, mode |-> ModeOf(key), init |-> init, args |-> args,
    hs |-> hs, done |-> 0, acc |-> init, running |-> FALSE,
    status |-> IF Len(hs) = 0 THEN "returned" ELSE "active",
    calls |-> <<>>, rets |-> <<>> ]

\* What a settled applyPlugins call resolves to.
DispatchResult(f) == IF f.mode = "modify" THEN f.acc ELSE Undefined

\* The dispatcher starts the next handler: only when the previous one is done.
CallNext(f) ==
  [ f EXCEPT !.running = TRUE,
             !.calls = Append(@, [ id |-> f.done + 1,
                                   input |-> IF f.mode = "modify" THEN f.acc
                                             ELSE f.args ]) ]

\* The running handler settles: it throws, or it returns and the accumulator
\* of a MODIFY dispatch becomes its result.
Settle(f) ==
  LET id == f.done + 1
      beh == f.hs[id]
      out == IF f.mode = "modify"
             THEN HandlerResult(f.key, id, beh, f.acc)
             ELSE Undefined
  IN IF beh = "fail"
     THEN [f EXCEPT !.running = FALSE, !.status = "threw"]
     ELSE [ f EXCEPT
              !.running = FALSE,
              !.done = id,
              !.acc = IF f.mode = "modify" THEN out ELSE f.acc,
              !.rets = Append(@, out),
              !.status = IF id = Len(f.hs) THEN "returned" ELSE "active" ]

HandlerCall ==
  /\ frame.status = "active"
  /\ ~frame.running
  /\ frame' = CallNext(frame)
  /\ UNCHANGED <<closure, inner, config, reactVersion, pc, started, finished, registered,
                 entry, opts, bundler, stats, buildCalls, sizeReports, markup,
                 htmlFiles, writeIdx, written, failure>>

HandlerReturn ==
  /\ frame.status = "active"
  /\ frame.running
  /\ frame' = Settle(frame)
  /\ UNCHANGED <<closure, inner, config, reactVersion, pc, started, finished, registered,
                 entry, opts, bundler, stats, buildCalls, sizeReports, markup,
                 htmlFiles, writeIdx, written, failure>>

(***************************************************************************)
(* The steps of fn, in the order of its statements.                        *)
(***************************************************************************)
StepOrder ==
  << "clearTmp", "onCheckPkgJSON", "onGenerateFiles", "getBabelOpts",
     "modifyEntry", "onBeforeCompiler", "modifyUniBundlerOpts",
     "modifyUniBundler", "build", "measure", "getMarkupArgs", "getMarkup",
     "modifyExportHTMLFiles", "write", "onBuildHtmlComplete" >>

StepIndex(s) == CHOOSE i \in 1..Len(StepOrder) : StepOrder[i] = s

Room == MaxRegistered - registered

\* A step of fn throws and nothing catches it: fn rejects.
Fails(step) ==
  /\ pc' = "failed"
  /\ failure' = step

\* await api.applyPlugins(...) of a top-level step begins; no other call is in
\* flight (the previous one, if any, has been consumed).
Dispatch(key, init, args) ==
  /\ pc = key
  /\ frame.status \in {"idle", "consumed"}
  /\ \E hs \in HandlerLists(key, Room) :
       /\ frame' = ApplyPlugins(key, init, args, hs)
       /\ registered' = registered + Len(hs)
  /\ started' = Append(started, key)

\* The awaited dispatch of step key has resolved and fn takes its value.  The
\* settled call stays on record until the next applyPlugins call.
Resolved(key) ==
  /\ pc = key
  /\ frame.key = key
  /\ frame.status = "returned"
  /\ frame' = [frame EXCEPT !.status = "consumed"]
  /\ finished' = Append(finished, key)

\* DispatchThrows with the rejection caught and the dispatch taken as
\* resolved with the accumulator it had reached.
DispatchThrows_Salvage ==
  /\ pc \in HookKeys
  /\ frame.key = pc
  /\ frame.status = "threw"
  /\ frame' = [frame EXCEPT !.status = "returned"]
  /\ UNCHANGED <<closure, inner, config, reactVersion, pc, started, finished, registered,
                 entry, opts, bundler, stats, buildCalls, sizeReports, markup,
                 htmlFiles, writeIdx, written, failure>>

\* The awaited dispatch has rejected; fn has no try/catch, so fn rejects.
DispatchThrows ==
  /\ pc \in HookKeys
  /\ frame.key = pc
  /\ frame.status = "threw"
  /\ Fails(pc)
  /\ UNCHANGED <<closure, inner, config, reactVersion, started, finished, registered, frame,
                 entry, opts, bundler, stats, buildCalls, sizeReports, markup,
                 htmlFiles, writeIdx, written>>

\* rimraf.sync(api.paths.absTmpPath), line 37.
ClearTmp ==
  /\ pc = "clearTmp"
  /\ started' = Append(started, "clearTmp")
  /\ \/ /\ pc' = "onCheckPkgJSON"
        /\ finished' = Append(finished, "clearTmp")
        /\ UNCHANGED failure
     \/ /\ Fails("clearTmp")
        /\ UNCHANGED finished
  /\ UNCHANGED <<closure, inner, config, reactVersion, registered, frame, entry, opts,
                 bundler, stats, buildCalls, sizeReports, markup, htmlFiles,
                 writeIdx, written>>

\* Lines 40-46.
StartCheckPkgJSON ==
  /\ Dispatch("onCheckPkgJSON", Undefined,
              [origin |-> "null", current |-> "appData.pkg"])
  /\ UNCHANGED <<closure, inner, config, reactVersion, pc, finished, entry, opts, bundler,
                 stats, buildCalls, sizeReports, markup, htmlFiles, writeIdx,
                 written, failure>>

FinishCheckPkgJSON ==
  /\ Resolved("onCheckPkgJSON")
  /\ pc' = "onGenerateFiles"
  /\ UNCHANGED <<closure, inner, config, reactVersion, started, registered, entry, opts,
                 bundler, stats, buildCalls, sizeReports, markup, htmlFiles,
                 writeIdx, written, failure>>

\* generate({isFirstTime: true}), lines 49-60.
StartGenerateFiles ==
  /\ Dispatch("onGenerateFiles", Undefined,
              [files |-> "null", isFirstTime |-> TRUE])
  /\ UNCHANGED <<closure, inner, config, reactVersion, pc, finished, entry, opts, bundler,
                 stats, buildCalls, sizeReports, markup, htmlFiles, writeIdx,
                 written, failure>>

FinishGenerateFiles ==
  /\ Resolved("onGenerateFiles")
  /\ pc' = "getBabelOpts"
  /\ UNCHANGED <<closure, inner, config, reactVersion, started, registered, entry, opts,
                 bundler, stats, buildCalls, sizeReports, markup, htmlFiles,
                 writeIdx, written, failure>>

\* await getBabelOpts({ api }), lines 64-70.
GetBabelOpts ==
  /\ pc = "getBabelOpts"
  /\ started' = Append(started, "getBabelOpts")
  /\ \/ /\ pc' = "modifyEntry"
        /\ finished' = Append(finished, "getBabelOpts")
        /\ UNCHANGED failure
     \/ /\ Fails("getBabelOpts")
        /\ UNCHANGED finished
  /\ UNCHANGED <<closure, inner, config, reactVersion, registered, frame, entry, opts,
                 bundler, stats, buildCalls, sizeReports, markup, htmlFiles,
                 writeIdx, written>>

(***************************************************************************)
(* Composing the build options, lines 99-131.                              *)
(***************************************************************************)
\* ShouldUseAutomaticRuntime with semver.gt in place of semver.gte.
ShouldUseAutomaticRuntime_Gt(version) ==
  /\ version # NoVersion
  /\ SemverCompare(version, Threshold) > 0

\* api.appData.react?.version && semver.gte(version, '17.0.0'), lines 99-104.
ShouldUseAutomaticRuntime(version) ==
  /\ version # NoVersion
  /\ SemverGte(version, Threshold)

\* BackendFields with the vite closure added to the webpack fields instead
\* of replacing them.
BackendFields_Both(cfg) ==
  (IF cfg.vite THEN [ modifyViteConfig |-> "closure modifyViteConfig" ]
   ELSE <<>>) @@
  [ babelPreset |-> "babelPreset",
    chainWebpack |-> "closure chainWebpack",
    modifyWebpackConfig |-> "closure modifyWebpackConfig" ]

\* Lines 115-117: the fields spread into opts for the configured backend.
BackendFields(cfg) ==
  IF cfg.vite
  THEN [ modifyViteConfig |-> "closure modifyViteConfig" ]
  ELSE [ babelPreset |-> "babelPreset",
         chainWebpack |-> "closure chainWebpack",
         modifyWebpackConfig |-> "closure modifyWebpackConfig" ]

\* The literal of lines 105-131.  The field edits is the model's record of
\* what handlers later change in the object: none when it is composed.
ComposeOpts(cfg, version, ent) ==
  BackendFields(cfg) @@
  [ react |-> [ runtime |-> IF ShouldUseAutomaticRuntime(version)
                            THEN "automatic" ELSE "classic" ],
    config |-> [ outputPath |-> "dist", vite |-> cfg.vite,
                 mako |-> cfg.mako, mpa |-> cfg.mpa ],
    cwd |-> "cwd",
    entry |-> ent,
    beforeBabelPlugins |-> "beforeBabelPlugins",
    beforeBabelPresets |-> "beforeBabelPresets",
    extraBabelPlugins |-> "extraBabelPlugins",
    extraBabelPresets |-> "extraBabelPresets",
    onBuildComplete |-> "closure onBuildComplete",
    clean |-> TRUE,
    htmlFiles |-> <<>>,
    edits |-> <<>> ]

\* Lines 93-98.
StartModifyEntry ==
  /\ Dispatch("modifyEntry", [umi |-> "absTmpPath/umi.ts", edits |-> <<>>],
              Undefined)
  /\ UNCHANGED <<closure, inner, config, reactVersion, pc, finished, entry, opts, bundler,
                 stats, buildCalls, sizeReports, markup, htmlFiles, writeIdx,
                 written, failure>>

\* Line 93 binds entry; lines 99-131 compose opts.
FinishModifyEntry ==
  /\ Resolved("modifyEntry")
  /\ entry' = DispatchResult(frame)
  /\ opts' = ComposeOpts(config, reactVersion, entry')
  /\ pc' = "onBeforeCompiler"
  /\ UNCHANGED <<closure, inner, config, reactVersion, started, registered, bundler, stats,
                 buildCalls, sizeReports, markup, htmlFiles, writeIdx,
                 written, failure>>

\* Lines 133-136.
StartBeforeCompiler ==
  /\ Dispatch("onBeforeCompiler", Undefined,
              [compiler |-> "appData.bundler", opts |-> opts])
  /\ UNCHANGED <<closure, inner, config, reactVersion, pc, finished, entry, opts, bundler,
                 stats, buildCalls, sizeReports, markup, htmlFiles, writeIdx,
                 written, failure>>

\* FinishBeforeCompiler with opts bound to what the event dispatch resolves to.
FinishBeforeCompiler_Assigns ==
  /\ Resolved("onBeforeCompiler")
  /\ opts' = DispatchResult(frame)
  /\ pc' = "modifyUniBundlerOpts"
  /\ UNCHANGED <<closure, inner, config, reactVersion, started, registered, entry,
                 bundler, stats, buildCalls, sizeReports, markup, htmlFiles,
                 writeIdx, written, failure>>

FinishBeforeCompiler ==
  /\ Resolved("onBeforeCompiler")
  /\ pc' = "modifyUniBundlerOpts"
  /\ UNCHANGED <<closure, inner, config, reactVersion, started, registered, entry, opts,
                 bundler, stats, buildCalls, sizeReports, markup, htmlFiles,
                 writeIdx, written, failure>>

\* initialValue of the modifyUniBundlerOpts dispatch, line 140.
UniBundlerOptsSeed(o) == o

\* UniBundlerOptsBound with the resolved value dropped: opts keeps what
\* the dispatch was seeded with.
UniBundlerOptsBound_Discard(f) == f.init

\* opts = await api.applyPlugins(...), line 138: the value opts is bound to.
UniBundlerOptsBound(f) == DispatchResult(f)

\* Lines 138-144.
StartModifyUniBundlerOpts ==
  /\ Dispatch("modifyUniBundlerOpts", UniBundlerOptsSeed(opts),
              [bundler |-> "appData.bundler"])
  /\ UNCHANGED <<closure, inner, config, reactVersion, pc, finished, entry, opts, bundler,
                 stats, buildCalls, sizeReports, markup, htmlFiles, writeIdx,
                 written, failure>>

FinishModifyUniBundlerOpts ==
  /\ Resolved("modifyUniBundlerOpts")
  /\ opts' = UniBundlerOptsBound(frame)
  /\ pc' = "modifyUniBundler"
  /\ UNCHANGED <<closure, inner, config, reactVersion, started, registered, entry, bundler,
                 stats, buildCalls, sizeReports, markup, htmlFiles, writeIdx,
                 written, failure>>

\* Lines 146-152: no initialValue is given.
StartModifyUniBundler ==
  /\ Dispatch("modifyUniBundler", Undefined,
              [bundler |-> "appData.bundler", opts |-> opts])
  /\ UNCHANGED <<closure, inner, config, reactVersion, pc, finished, entry, opts, bundler,
                 stats, buildCalls, sizeReports, markup, htmlFiles, writeIdx,
                 written, failure>>

\* FinishModifyUniBundler with the dispatch's result bound to opts as well as
\* to bundler.
FinishModifyUniBundler_BindsOpts ==
  /\ Resolved("modifyUniBundler")
  /\ bundler' = DispatchResult(frame)
  /\ opts' = DispatchResult(frame)
  /\ pc' = "build"
  /\ UNCHANGED <<closure, inner, config, reactVersion, started, registered, entry,
                 stats, buildCalls, sizeReports, markup, htmlFiles, writeIdx,
                 written, failure>>

FinishModifyUniBundler ==
  /\ Resolved("modifyUniBundler")
  /\ bundler' = DispatchResult(frame)
  /\ pc' = "build"
  /\ UNCHANGED <<closure, inner, config, reactVersion, started, registered, entry, opts,
                 stats, buildCalls, sizeReports, markup, htmlFiles, writeIdx,
                 written, failure>>

(***************************************************************************)
(* bundler.build, line 154.                                                *)
(***************************************************************************)
\* The chunk files a build can report in its stats, by bundle name.
BuildResults ==
  { [ chunks |-> ("umi.js" :> <<"umi.js">>) ],
    [ chunks |-> ("umi.js" :> <<"vendors.js", "umi.js">>)
                 @@ ("umi.css" :> <<"umi.css">>) ] }

\* StartBuild with the build handed the options as they were composed, not
\* the value opts was rebound to at line 138.
StartBuild_Composed ==
  /\ pc = "build"
  /\ started' = Append(started, "build")
  /\ \/ /\ bundler # Undefined
        /\ buildCalls' = Append(buildCalls,
                                [ backend |-> bundler.backend,
                                  opts |-> ComposeOpts(config, reactVersion,
                                                       entry) ])
        /\ pc' = "building"
        /\ UNCHANGED failure
     \/ /\ bundler = Undefined
        /\ Fails("build")
        /\ UNCHANGED buildCalls
  /\ UNCHANGED <<closure, inner, config, reactVersion, finished, registered, frame, entry,
                 opts, bundler, stats, sizeReports, markup, htmlFiles,
                 writeIdx, written>>

\* bundler.build(opts) is called: bundler is what modifyUniBundler resolved
\* to; calling .build on undefined throws a TypeError.
StartBuild ==
  /\ pc = "build"
  /\ started' = Append(started, "build")
  /\ \/ /\ bundler # Undefined
        /\ buildCalls' = Append(buildCalls,
                                [backend |-> bundler.backend, opts |-> opts])
        /\ pc' = "building"
        /\ UNCHANGED failure
     \/ /\ bundler = Undefined
        /\ Fails("build")
        /\ UNCHANGED buildCalls
  /\ UNCHANGED <<closure, inner, config, reactVersion, finished, registered, frame, entry,
                 opts, bundler, stats, sizeReports, markup, htmlFiles,
                 writeIdx, written>>

(***************************************************************************)
(* The closures handed to the backend in opts, lines 71-92 and 122-128,    *)
(* and the backend's calls of them while bundler.build runs.               *)
(***************************************************************************)
\* No closure has been called in this build.
NoClosure ==
  [ name |-> "none", memo |-> Undefined, args |-> Undefined,
    state |-> "idle", result |-> Undefined, called |-> {} ]

\* The closures an options value carries.
ClosuresOf(o) == { c \in ClosureNames : c \in DOMAIN o }

\* The order in which the backend gets to the closures it was given: the
\* configuration hooks while it prepares the compilation, onBuildComplete
\* when the compilation is over.  It may leave any of them out.
ClosureOrder ==
  << "chainWebpack", "modifyWebpackConfig", "modifyViteConfig",
     "onBuildComplete" >>

ClosureIndex(c) == CHOOSE i \in DOMAIN ClosureOrder : ClosureOrder[i] = c

\* What the backend passes: to onBuildComplete its one parameter, the outcome
\* of the compilation; to the other closures a configuration of its own and
\* the args that go with it.
ClosureParams(c) ==
  IF c = "onBuildComplete"
  THEN { << [isFirstCompile |-> TRUE], Undefined >> }
  ELSE { << [config |-> target, edits |-> <<>>], [env |-> "production"] >> :
           target \in {"client", "server"} }

\* ClosureSeed with no initialValue given in any closure's dispatch.
ClosureSeed_None(c, memo) == Undefined

\* initialValue of the closure's dispatch: memo (lines 75, 82, 89); the
\* dispatch of onBuildComplete has none.
ClosureSeed(c, memo) == IF c = "onBuildComplete" THEN Undefined ELSE memo

\* args of the closure's dispatch: the closure's own args (lines 76, 83, 90),
\* or the one parameter of onBuildComplete (line 126).
ClosureArgs(c, memo, args) == IF c = "onBuildComplete" THEN memo ELSE args

\* ClosureResult with every closure returning what its dispatch resolved to.
ClosureResult_AllReturn(c, f) == DispatchResult(f)

\* What the closure's promise resolves to: modifyWebpackConfig and
\* modifyViteConfig return the awaited dispatch (lines 80, 87); chainWebpack
\* and onBuildComplete await it and return nothing.
ClosureResult(c, f) ==
  IF c \in {"modifyWebpackConfig", "modifyViteConfig"}
  THEN DispatchResult(f)
  ELSE Undefined

\* The backend calls a closure of the options it was given, and the closure
\* calls api.applyPlugins.  The backend calls one closure at a time, each at
\* most once in a build, in ClosureOrder.
CallClosure ==
  /\ pc = "building"
  /\ closure.state \in {"idle", "returned"}
  /\ \E c \in ClosuresOf(buildCalls[1].opts) :
       /\ \A d \in closure.called : ClosureIndex(d) < ClosureIndex(c)
       /\ \E p \in ClosureParams(c) :
         \E hs \in HandlerLists(c, Room) :
           /\ closure' = [ name |-> c, memo |-> p[1], args |-> p[2],
                           state |-> "called", result |-> Undefined,
                           called |-> closure.called \cup {c} ]
           /\ inner' = ApplyPlugins(c, ClosureSeed(c, p[1]),
                                    ClosureArgs(c, p[1], p[2]), hs)
           /\ registered' = registered + Len(hs)
  /\ UNCHANGED <<config, reactVersion, pc, started, finished, frame, entry,
                 opts, bundler, stats, buildCalls, sizeReports, markup,
                 htmlFiles, writeIdx, written, failure>>

ClosureHandlerCall ==
  /\ inner.status = "active"
  /\ ~inner.running
  /\ inner' = CallNext(inner)
  /\ UNCHANGED <<closure, config, reactVersion, pc, started, finished,
                 registered, frame, entry, opts, bundler, stats, buildCalls,
                 sizeReports, markup, htmlFiles, writeIdx, written, failure>>

ClosureHandlerReturn ==
  /\ inner.status = "active"
  /\ inner.running
  /\ inner' = Settle(inner)
  /\ UNCHANGED <<closure, config, reactVersion, pc, started, finished,
                 registered, frame, entry, opts, bundler, stats, buildCalls,
                 sizeReports, markup, htmlFiles, writeIdx, written, failure>>

\* ClosureReturns without the await: the closure's promise resolves while its
\* dispatch may still be running.
ClosureReturns_NoAwait ==
  /\ closure.state = "called"
  /\ inner.status \in {"active", "returned"}
  /\ closure' = [ closure EXCEPT !.state = "returned",
                                 !.result = ClosureResult(closure.name, inner) ]
  /\ inner' = IF inner.status = "returned"
              THEN [inner EXCEPT !.status = "consumed"]
              ELSE inner
  /\ UNCHANGED <<config, reactVersion, pc, started, finished, registered,
                 frame, entry, opts, bundler, stats, buildCalls, sizeReports,
                 markup, htmlFiles, writeIdx, written, failure>>

\* The awaited dispatch has resolved and the closure's promise resolves.
ClosureReturns ==
  /\ closure.state = "called"
  /\ inner.status = "returned"
  /\ closure' = [ closure EXCEPT !.state = "returned",
                                 !.result = ClosureResult(closure.name, inner) ]
  /\ inner' = [inner EXCEPT !.status = "consumed"]
  /\ UNCHANGED <<config, reactVersion, pc, started, finished, registered,
                 frame, entry, opts, bundler, stats, buildCalls, sizeReports,
                 markup, htmlFiles, writeIdx, written, failure>>

\* The awaited dispatch has rejected: the closure has no try/catch, so its
\* promise rejects.
ClosureThrows ==
  /\ closure.state = "called"
  /\ inner.status = "threw"
  /\ closure' = [closure EXCEPT !.state = "threw"]
  /\ UNCHANGED <<inner, config, reactVersion, pc, started, finished,
                 registered, frame, entry, opts, bundler, stats, buildCalls,
                 sizeReports, markup, htmlFiles, writeIdx, written, failure>>

\* BuildReturn with a rejected build tried again.
BuildReturn_Retry ==
  /\ pc = "building"
  /\ closure.state # "called"
  /\ closure' = NoClosure
  /\ inner' = Idle
  /\ \/ /\ closure.state # "threw"
        /\ \E st \in BuildResults : stats' = st
        /\ finished' = Append(finished, "build")
        /\ pc' = "measure"
        /\ UNCHANGED failure
     \/ /\ failure' = "build"
        /\ pc' = "build"
        /\ UNCHANGED <<stats, finished>>
  /\ UNCHANGED <<config, reactVersion, started, registered, frame, entry,
                 opts, bundler, buildCalls, sizeReports, markup, htmlFiles,
                 writeIdx, written>>

\* The awaited build resolves with its stats, or rejects: once the backend is
\* not waiting for a closure, and only by rejecting when a closure rejected.
\* The backend's calls end with it.
BuildReturn ==
  /\ pc = "building"
  /\ closure.state # "called"
  /\ closure' = NoClosure
  /\ inner' = Idle
  /\ \/ /\ closure.state # "threw"
        /\ \E st \in BuildResults : stats' = st
        /\ finished' = Append(finished, "build")
        /\ pc' = "measure"
        /\ UNCHANGED failure
     \/ /\ Fails("build")
        /\ UNCHANGED <<stats, finished>>
  /\ UNCHANGED <<config, reactVersion, started, registered, frame, entry,
                 opts, bundler, buildCalls, sizeReports, markup, htmlFiles,
                 writeIdx, written>>

(***************************************************************************)
(* File sizes, lines 156-171.                                              *)
(***************************************************************************)
\* The condition of line 156.
MeasuresSizes(cfg) == ~cfg.vite /\ ~cfg.mako

\* resolve(opts.cwd, opts.config.outputPath || DEFAULT_OUTPUT_PATH).
AbsOutputPath(o) == <<o.cwd, o.config.outputPath>>

\* Lines 157-170.  measureFileSizesBeforeBuild(absOutputPath) reads the output
\* directory as it is when line 162 runs: previousSizeMap records the
\* directory measured and how many bundler.build calls had been made by then.
Measure ==
  /\ pc = "measure"
  /\ MeasuresSizes(config)
  /\ started' = Append(started, "measure")
  /\ \/ /\ sizeReports' =
             Append(sizeReports,
                    [ webpackStats |-> stats,
                      previousSizeMap |-> [ of |-> AbsOutputPath(opts),
                                            builds |-> Len(buildCalls) ],
                      buildFolder |-> AbsOutputPath(opts) ])
        /\ finished' = Append(finished, "measure")
        /\ pc' = "html"
        /\ UNCHANGED failure
     \/ /\ Fails("measure")
        /\ UNCHANGED <<sizeReports, finished>>
  /\ UNCHANGED <<closure, inner, config, reactVersion, registered, frame, entry, opts,
                 bundler, stats, buildCalls, markup, htmlFiles, writeIdx,
                 written>>

SkipMeasure ==
  /\ pc = "measure"
  /\ ~MeasuresSizes(config)
  /\ pc' = "html"
  /\ UNCHANGED <<closure, inner, config, reactVersion, started, finished, registered, frame,
                 entry, opts, bundler, stats, buildCalls, sizeReports, markup,
                 htmlFiles, writeIdx, written, failure>>

(***************************************************************************)
(* HTML generation, lines 176-222.                                         *)
(***************************************************************************)
\* getAssetsMap({stats, publicPath}): the urls of the chunk files, by bundle.
GetAssetsMap(st) ==
  [ name \in DOMAIN st.chunks |->
      [ i \in 1..Len(st.chunks[name]) |-> <<"publicPath", st.chunks[name][i]>> ] ]

\* Lines 179-184.
AssetsMapOf(cfg, st) == IF cfg.vite THEN <<>> ELSE GetAssetsMap(st)

\* (assetsMap[name] || []).map((src) => ({ src })).
MappedSrcs(assetsMap, name) ==
  IF name \in DOMAIN assetsMap
  THEN [ i \in 1..Len(assetsMap[name]) |-> [src |-> assetsMap[name][i]] ]
  ELSE <<>>

\* What getMarkupArgs({ api }) can resolve to.
MarkupArgs ==
  { [ mountElementId |-> "root", styles |-> <<>>, scripts |-> <<>> ],
    [ mountElementId |-> "root",
      styles |-> << [src |-> <<"cdn", "b.css">>] >>,
      scripts |-> << [src |-> <<"cdn", "b.js">>], [src |-> <<"cdn", "c.js">>] >> ] }

\* styles of finalMarkUpArgs, lines 190-194.
FinalStyles(cfg, assetsMap, args) ==
  args.styles \o (IF cfg.vite THEN <<>> ELSE MappedSrcs(assetsMap, "umi.css"))

\* FinalScripts with the mapped scripts appended, as the styles are.
FinalScripts_Appended(cfg, assetsMap, args) ==
  args.scripts \o (IF cfg.vite THEN <<>> ELSE MappedSrcs(assetsMap, "umi.js"))

\* scripts of finalMarkUpArgs, lines 195-198.
FinalScripts(cfg, assetsMap, args) ==
  (IF cfg.vite THEN <<>> ELSE MappedSrcs(assetsMap, "umi.js")) \o args.scripts

\* Lines 188-201; opts.config.esm and api.args.vite are unset in the runs
\* modelled, so esmScript is false.
FinalMarkUpArgs(cfg, assetsMap, args) ==
  [ styles |-> FinalStyles(cfg, assetsMap, args),
    scripts |-> FinalScripts(cfg, assetsMap, args),
    esmScript |-> FALSE,
    path |-> "/" ] @@ args

\* getMarkup(markupArgs): the document text rendered from the arguments.
GetMarkup(args) == [ renderedFrom |-> args ]

\* initialValue of the modifyExportHTMLFiles dispatch, lines 206-211.
DefaultHtmlFiles(page) ==
  [ docs |-> << [path |-> "index.html", content |-> page] >> ]

\* AbsPath resolved against the working directory.
AbsPath_InCwd(path) == <<"cwd", path>>

\* resolve(api.paths.absOutputPath, path), line 216.
AbsPath(path) == <<"absOutputPath", path>>

\* Line 178, api.config.mpa set: the block is skipped.
SkipHtml ==
  /\ pc = "html"
  /\ config.mpa
  /\ pc' = "onBuildHtmlComplete"
  /\ UNCHANGED <<closure, inner, config, reactVersion, started, finished, registered, frame,
                 entry, opts, bundler, stats, buildCalls, sizeReports, markup,
                 htmlFiles, writeIdx, written, failure>>

\* GetMarkupArgs without the test of line 178: the block is entered in mpa
\* mode too.
GetMarkupArgs_Always ==
  /\ pc = "html"
  /\ started' = Append(started, "getMarkupArgs")
  /\ \/ /\ \E args \in MarkupArgs :
             markup' = [ args |-> FinalMarkUpArgs(config,
                                                  AssetsMapOf(config, stats),
                                                  args),
                         external |-> args,
                         page |-> Undefined ]
        /\ finished' = Append(finished, "getMarkupArgs")
        /\ pc' = "getMarkup"
        /\ UNCHANGED failure
     \/ /\ Fails("getMarkupArgs")
        /\ UNCHANGED <<markup, finished>>
  /\ UNCHANGED <<closure, inner, config, reactVersion, registered, frame, entry, opts,
                 bundler, stats, buildCalls, sizeReports, htmlFiles, writeIdx,
                 written>>

\* Lines 179-201: the asset map, await getMarkupArgs, finalMarkUpArgs.
GetMarkupArgs ==
  /\ pc = "html"
  /\ ~config.mpa
  /\ started' = Append(started, "getMarkupArgs")
  /\ \/ /\ \E args \in MarkupArgs :
             markup' = [ args |-> FinalMarkUpArgs(config,
                                                  AssetsMapOf(config, stats),
                                                  args),
                         external |-> args,
                         page |-> Undefined ]
        /\ finished' = Append(finished, "getMarkupArgs")
        /\ pc' = "getMarkup"
        /\ UNCHANGED failure
     \/ /\ Fails("getMarkupArgs")
        /\ UNCHANGED <<markup, finished>>
  /\ UNCHANGED <<closure, inner, config, reactVersion, registered, frame, entry, opts,
                 bundler, stats, buildCalls, sizeReports, htmlFiles, writeIdx,
                 written>>

\* await getMarkup(finalMarkUpArgs), line 209.
RenderMarkup ==
  /\ pc = "getMarkup"
  /\ started' = Append(started, "getMarkup")
  /\ \/ /\ markup' = [markup EXCEPT !.page = GetMarkup(markup.args)]
        /\ finished' = Append(finished, "getMarkup")
        /\ pc' = "modifyExportHTMLFiles"
        /\ UNCHANGED failure
     \/ /\ Fails("getMarkup")
        /\ UNCHANGED <<markup, finished>>
  /\ UNCHANGED <<closure, inner, config, reactVersion, registered, frame, entry, opts,
                 bundler, stats, buildCalls, sizeReports, htmlFiles, writeIdx,
                 written>>

\* Lines 204-213.
StartModifyExportHTMLFiles ==
  /\ Dispatch("modifyExportHTMLFiles", DefaultHtmlFiles(markup.page),
              [markupArgs |-> markup.args, getMarkup |-> "getMarkup"])
  /\ UNCHANGED <<closure, inner, config, reactVersion, pc, finished, entry, opts, bundler,
                 stats, buildCalls, sizeReports, markup, htmlFiles, writeIdx,
                 written, failure>>

\* Line 204 binds htmlFiles and the forEach of line 215 begins.
FinishModifyExportHTMLFiles ==
  /\ Resolved("modifyExportHTMLFiles")
  /\ htmlFiles' = DispatchResult(frame).docs
  /\ started' = Append(started, "write")
  /\ pc' = "write"
  /\ UNCHANGED <<closure, inner, config, reactVersion, registered, entry, opts, bundler,
                 stats, buildCalls, sizeReports, markup, writeIdx, written,
                 failure>>

\* WriteDoc with a failed turn undoing the turns before it: the documents
\* written so far are removed.
WriteDoc_Rollback ==
  /\ pc = "write"
  /\ writeIdx < Len(htmlFiles)
  /\ \/ /\ written' = Append(written,
                             [ absPath |-> AbsPath(htmlFiles[writeIdx + 1].path),
                               content |-> htmlFiles[writeIdx + 1].content ])
        /\ writeIdx' = writeIdx + 1
        /\ UNCHANGED <<pc, failure>>
     \/ /\ Fails("mkdirpSync")
        /\ written' = <<>>
        /\ writeIdx' = 0
     \/ /\ Fails("writeFileSync")
        /\ written' = <<>>
        /\ writeIdx' = 0
  /\ UNCHANGED <<closure, inner, config, reactVersion, started, finished, registered, frame,
                 entry, opts, bundler, stats, buildCalls, sizeReports, markup,
                 htmlFiles>>

\* One turn of the forEach, lines 215-221: mkdirpSync, then writeFileSync.
WriteDoc ==
  /\ pc = "write"
  /\ writeIdx < Len(htmlFiles)
  /\ \/ /\ written' = Append(written,
                             [ absPath |-> AbsPath(htmlFiles[writeIdx + 1].path),
                               content |-> htmlFiles[writeIdx + 1].content ])
        /\ writeIdx' = writeIdx + 1
        /\ UNCHANGED <<pc, failure>>
     \/ /\ Fails("mkdirpSync")
        /\ UNCHANGED <<written, writeIdx>>
     \/ /\ Fails("writeFileSync")
        /\ UNCHANGED <<written, writeIdx>>
  /\ UNCHANGED <<closure, inner, config, reactVersion, started, finished, registered, frame,
                 entry, opts, bundler, stats, buildCalls, sizeReports, markup,
                 htmlFiles>>

\* FinishWrites with the files generated once more after the documents.
FinishWrites_Regenerate ==
  /\ pc = "write"
  /\ writeIdx = Len(htmlFiles)
  /\ finished' = Append(finished, "write")
  /\ pc' = "onGenerateFiles"
  /\ UNCHANGED <<closure, inner, config, reactVersion, started, registered, frame, entry,
                 opts, bundler, stats, buildCalls, sizeReports, markup,
                 htmlFiles, writeIdx, written, failure>>

\* The forEach has gone through htmlFiles.
FinishWrites ==
  /\ pc = "write"
  /\ writeIdx = Len(htmlFiles)
  /\ finished' = Append(finished, "write")
  /\ pc' = "onBuildHtmlComplete"
  /\ UNCHANGED <<closure, inner, config, reactVersion, started, registered, frame, entry,
                 opts, bundler, stats, buildCalls, sizeReports, markup,
                 htmlFiles, writeIdx, written, failure>>

\* HtmlCompleteArgs without the htmlFiles entry of the literal: the args are
\* the fields of opts alone.
HtmlCompleteArgs_OptsOnly(o, files) == o

\* { ...opts, htmlFiles }, lines 227-230: the fields of opts, with htmlFiles
\* replaced by the local htmlFiles.
HtmlCompleteArgs(o, files) == [o EXCEPT !.htmlFiles = files]

\* Lines 225-231.
StartBuildHtmlComplete ==
  /\ Dispatch("onBuildHtmlComplete", Undefined,
              HtmlCompleteArgs(opts, htmlFiles))
  /\ UNCHANGED <<closure, inner, config, reactVersion, pc, finished, entry, opts, bundler,
                 stats, buildCalls, sizeReports, markup, htmlFiles, writeIdx,
                 written, failure>>

FinishBuildHtmlComplete ==
  /\ Resolved("onBuildHtmlComplete")
  /\ pc' = "done"
  /\ UNCHANGED <<closure, inner, config, reactVersion, started, registered, entry, opts,
                 bundler, stats, buildCalls, sizeReports, markup, htmlFiles,
                 writeIdx, written, failure>>

(***************************************************************************)
(* The specification.                                                      *)
(***************************************************************************)
Configs == [vite : BOOLEAN, mako : BOOLEAN, mpa : BOOLEAN]

Init ==
  /\ config \in Configs
  /\ reactVersion \in ReactVersions \cup {NoVersion}
  /\ pc = "clearTmp"
  /\ started = <<>>
  /\ finished = <<>>
  /\ registered = 0
  /\ frame = Idle
  /\ entry = Undefined
  /\ opts = Undefined
  /\ bundler = Undefined
  /\ stats = Undefined
  /\ buildCalls = <<>>
  /\ sizeReports = <<>>
  /\ markup = Undefined
  /\ htmlFiles = <<>>
  /\ writeIdx = 0
  /\ written = <<>>
  /\ failure = "none"
  /\ closure = NoClosure
  /\ inner = Idle

Next ==
  \/ ClearTmp
  \/ StartCheckPkgJSON
  \/ FinishCheckPkgJSON
  \/ StartGenerateFiles
  \/ FinishGenerateFiles
  \/ GetBabelOpts
  \/ StartModifyEntry
  \/ FinishModifyEntry
  \/ StartBeforeCompiler
  \/ FinishBeforeCompiler
  \/ StartModifyUniBundlerOpts
  \/ FinishModifyUniBundlerOpts
  \/ StartModifyUniBundler
  \/ FinishModifyUniBundler
  \/ StartBuild
  \/ CallClosure
  \/ ClosureHandlerCall
  \/ ClosureHandlerReturn
  \/ ClosureReturns
  \/ ClosureThrows
  \/ BuildReturn
  \/ Measure
  \/ SkipMeasure
  \/ SkipHtml
  \/ GetMarkupArgs
  \/ RenderMarkup
  \/ StartModifyExportHTMLFiles
  \/ FinishModifyExportHTMLFiles
  \/ WriteDoc
  \/ FinishWrites
  \/ StartBuildHtmlComplete
  \/ FinishBuildHtmlComplete
  \/ HandlerCall
  \/ HandlerReturn
  \/ DispatchThrows

Spec == Init /\ [][Next]_vars

(***************************************************************************)
(* The claims.                                                             *)
(***************************************************************************)

\* C1: the steps of a run start in the order of StepOrder (which holds the
\* ten top-level steps of the build command in their order, and the helper
\* calls between them), each at most once; a step starts only when every
\* step started before it has finished, and no earlier step starts again.
C1_StepsOnceInOrder ==
  /\ \A i \in 1..(Len(started) - 1) :
       StepIndex(started[i]) < StepIndex(started[i + 1])
  /\ Len(finished) <= Len(started)
  /\ Len(started) <= Len(finished) + 1
  /\ \A i \in DOMAIN finished : finished[i] = started[i]

\* A run that went through every step.
C1_Witness == pc = "done" /\ started = StepOrder /\ finished = StepOrder

\* C2: once a dispatch or a collaborator call has failed, the run is in its
\* failed state and stays there: no step starts, no handler is called, no
\* build, size report or write is made, and the failed step does not run
\* again.
C2_FailFast ==
  /\ [](failure # "none" => pc = "failed")
  /\ [][ (pc = "failed" \/ frame.status = "threw")
         => /\ pc' = "failed"
            /\ started' = started
            /\ finished' = finished
            /\ frame' = frame
            /\ buildCalls' = buildCalls
            /\ sizeReports' = sizeReports
            /\ written' = written ]_vars

\* A run that failed at the write of its second document.
C2_Witness ==
  /\ pc = "failed"
  /\ failure = "writeFileSync"
  /\ Len(written) = 1
  /\ "onBuildHtmlComplete" \notin { started[i] : i \in DOMAIN started }

\* The configuration and registry of the end-to-end scenario: no vite, no
\* mako, no mpa, react 17.1.0, and no handler met under any key so far.
NoPluginScenario ==
  /\ ~config.vite
  /\ ~config.mako
  /\ ~config.mpa
  /\ reactVersion = <<17, 1, 0, 0>>
  /\ registered = 0

\* C3: in the scenario with no plugin the run completes: it fails only where
\* a collaborator fails; when it reaches the build step, bundler.build is
\* invoked once, on the traditional backend with the automatic runtime; when
\* it is done, one document index.html is written and the size reporter has
\* been invoked once.
C3_NoPluginRunCompletes ==
  NoPluginScenario =>
    /\ ("build" \in { started[i] : i \in DOMAIN started }
          => /\ Len(buildCalls) = 1
             /\ buildCalls[1].backend = "webpack"
             /\ buildCalls[1].opts.react.runtime = "automatic")
    /\ (pc = "done"
          => /\ Len(written) = 1
             /\ written[1].absPath = <<"absOutputPath", "index.html">>
             /\ Len(sizeReports) = 1)

\* C4: a MODIFY dispatch with two or more handlers calls them once each in
\* registration order, never one before the previous has returned; the first
\* receives the initial value (for modifyUniBundlerOpts: the composed
\* options), each later one the value the previous returned; the dispatch
\* resolves to the last handler's return value, and that is the value fn
\* binds.
C4_ModifyFold ==
  (frame.mode = "modify" /\ Len(frame.hs) >= 2) =>
    /\ Len(frame.calls) <= Len(frame.hs)
    /\ \A i \in DOMAIN frame.calls :
         /\ frame.calls[i].id = i
         /\ frame.calls[i].input =
              IF i = 1 THEN frame.init ELSE frame.rets[i - 1]
    /\ Len(frame.rets) <= Len(frame.calls)
    /\ Len(frame.calls) <= Len(frame.rets) + 1
    /\ (frame.running <=> Len(frame.calls) = Len(frame.rets) + 1)
         \/ frame.status = "threw"
    /\ (frame.key = "modifyUniBundlerOpts"
          => frame.init = ComposeOpts(config, reactVersion, entry))
    /\ (frame.status \in {"returned", "consumed"}
          => /\ Len(frame.calls) = Len(frame.hs)
             /\ Len(frame.rets) = Len(frame.hs)
             /\ DispatchResult(frame) = frame.rets[Len(frame.hs)])
    /\ (frame.status = "consumed"
          => /\ frame.key = "modifyEntry"
                  => entry = frame.rets[Len(frame.hs)]
             /\ frame.key = "modifyUniBundlerOpts"
                  => opts = frame.rets[Len(frame.hs)]
             /\ frame.key = "modifyUniBundler"
                  => bundler = frame.rets[Len(frame.hs)]
             /\ frame.key = "modifyExportHTMLFiles"
                  => htmlFiles = frame.rets[Len(frame.hs)].docs)

\* Three handlers of modifyUniBundlerOpts have run and opts holds their fold.
C4_Witness ==
  /\ pc = "modifyUniBundler"
  /\ frame.key = "modifyUniBundlerOpts"
  /\ frame.status = "consumed"
  /\ Len(frame.hs) = 3
  /\ opts.edits = <<1, 2, 3>>

\* C5: a dispatch on a key with no handler calls nothing and is no error; in
\* MODIFY mode it resolves to its initial value, which is what fn binds; in
\* EVENT mode neither its start nor its end changes anything fn holds.
C5_NoHandlers ==
  /\ []( (frame.status # "idle" /\ frame.hs = <<>>) =>
           /\ frame.status \in {"returned", "consumed"}
           /\ frame.calls = <<>>
           /\ DispatchResult(frame) =
                IF frame.mode = "modify" THEN frame.init ELSE Undefined
           /\ (frame.status = "consumed" =>
                 /\ frame.key = "modifyEntry" => entry = frame.init
                 /\ frame.key = "modifyUniBundlerOpts" => opts = frame.init
                 /\ frame.key = "modifyUniBundler" => bundler = Undefined
                 /\ frame.key = "modifyExportHTMLFiles"
                      => htmlFiles = frame.init.docs) )
  /\ [][ (frame' # frame /\ frame'.mode = "event" /\ frame'.hs = <<>>)
         => /\ pc' # "failed"
            /\ UNCHANGED <<entry, opts, bundler, stats, buildCalls,
                           sizeReports, markup, htmlFiles, writeIdx, written,
                           failure>> ]_vars

\* A run in which no key up to modifyUniBundlerOpts had a handler.
C5_Witness ==
  /\ pc = "modifyUniBundler"
  /\ frame.key = "modifyUniBundlerOpts"
  /\ frame.status = "consumed"
  /\ frame.hs = <<>>
  /\ registered = 0
  /\ opts = ComposeOpts(config, reactVersion, entry)

\* C6: in a MODIFY dispatch over three handlers whose second throws, the third
\* is never called, the dispatch does not resolve, fn binds nothing from it
\* (not the first handler's result), and fn's next step is its failure.
C6_SecondOfThreeFails ==
  /\ []( ( /\ frame.mode = "modify"
           /\ Len(frame.hs) = 3
           /\ frame.hs[1] # "fail"
           /\ frame.hs[2] = "fail" ) =>
           /\ Len(frame.calls) <= 2
           /\ frame.status \notin {"returned", "consumed"}
           /\ frame.key = "modifyEntry" => entry = Undefined
           /\ frame.key = "modifyUniBundlerOpts"
                => opts = ComposeOpts(config, reactVersion, entry)
           /\ frame.key = "modifyUniBundler" => bundler = Undefined
           /\ frame.key = "modifyExportHTMLFiles" => htmlFiles = <<>>
           /\ pc = "failed" => failure = frame.key )
  /\ [][ (frame.status = "threw" /\ pc # "failed")
         => (pc' = "failed" /\ failure' = frame.key /\ frame' = frame) ]_vars

\* The second of three modifyUniBundlerOpts handlers threw and the run failed.
C6_Witness ==
  /\ pc = "failed"
  /\ failure = "modifyUniBundlerOpts"
  /\ Len(frame.hs) = 3
  /\ frame.hs[2] = "fail"
  /\ Len(frame.calls) = 2
  /\ Len(frame.rets) = 1

\* C7: the options as composed, before the onBeforeCompiler dispatch changes
\* hands: with config.vite they hold modifyViteConfig and none of
\* babelPreset, chainWebpack, modifyWebpackConfig; with neither vite nor mako
\* they hold those three and not modifyViteConfig; never both modifyViteConfig
\* and chainWebpack.
C7_BackendExclusiveShape ==
  pc = "onBeforeCompiler" =>
    /\ config.vite =>
         /\ "modifyViteConfig" \in DOMAIN opts
         /\ DOMAIN opts \cap
              {"babelPreset", "chainWebpack", "modifyWebpackConfig"} = {}
    /\ (~config.vite /\ ~config.mako) =>
         /\ {"babelPreset", "chainWebpack", "modifyWebpackConfig"}
              \subseteq DOMAIN opts
         /\ "modifyViteConfig" \notin DOMAIN opts
    /\ ~({"modifyViteConfig", "chainWebpack"} \subseteq DOMAIN opts)

\* Options composed for a configuration that sets both vite and mako.
C7_Witness ==
  /\ pc = "onBeforeCompiler"
  /\ config.vite
  /\ config.mako
  /\ "modifyViteConfig" \in DOMAIN opts

\* A version that is 17.0.0 or later in semantic-version order: a greater
\* major, or major 17 of any release, or of a prerelease past 17.0.0.
AtLeast17(v) ==
  \/ v[1] > 17
  \/ v[1] = 17 /\ (v[2] > 0 \/ v[3] > 0 \/ v[4] = 0)

\* C8: the runtime composed into the options is automatic exactly when a
\* react version is present and is 17.0.0 or later, classic otherwise:
\* 17.0.0 and 18.2.0 give automatic, 16.14.0 and no version give classic.
C8_RuntimeByVersion ==
  pc = "onBeforeCompiler" =>
    /\ opts.react.runtime \in {"automatic", "classic"}
    /\ opts.react.runtime = "automatic"
         <=> (reactVersion # NoVersion /\ AtLeast17(reactVersion))
    /\ reactVersion \in {<<17, 0, 0, 0>>, <<18, 2, 0, 0>>}
         => opts.react.runtime = "automatic"
    /\ reactVersion \in {<<16, 14, 0, 0>>, NoVersion}
         => opts.react.runtime = "classic"

\* Options composed for react 17.0.0, the boundary.
C8_Witness ==
  /\ pc = "onBeforeCompiler"
  /\ reactVersion = <<17, 0, 0, 0>>
  /\ opts.react.runtime = "automatic"

\* C9: without vite the final scripts are the asset map's umi.js urls followed
\* by the scripts getMarkupArgs supplied, and the final styles are the supplied
\* styles followed by the asset map's umi.css urls; with vite both are the
\* supplied sequences.
C9_AssetMergeOrder ==
  markup # Undefined =>
    LET js == MappedSrcs(GetAssetsMap(stats), "umi.js")
        css == MappedSrcs(GetAssetsMap(stats), "umi.css")
    IN /\ ~config.vite =>
            /\ markup.args.scripts = js \o markup.external.scripts
            /\ markup.args.styles = markup.external.styles \o css
       /\ config.vite =>
            /\ markup.args.scripts = markup.external.scripts
            /\ markup.args.styles = markup.external.styles

\* Two mapped scripts before two supplied ones, one supplied style before one
\* mapped one.
C9_Witness ==
  /\ markup # Undefined
  /\ ~config.vite
  /\ Len(markup.args.scripts) = 4
  /\ markup.args.scripts[1] = [src |-> <<"publicPath", "vendors.js">>]
  /\ markup.args.scripts[3] = [src |-> <<"cdn", "b.js">>]
  /\ markup.args.styles =
       << [src |-> <<"cdn", "b.css">>], [src |-> <<"publicPath", "umi.css">>] >>

\* C10: when modifyExportHTMLFiles has no handler, htmlFiles is the one
\* document index.html holding the markup rendered from the final markup
\* arguments, and the writes of the stage are exactly one, of that content,
\* to index.html in the output directory.
C10_DefaultDocument ==
  ( /\ frame.key = "modifyExportHTMLFiles"
    /\ frame.hs = <<>>
    /\ frame.status = "consumed" ) =>
    /\ htmlFiles =
         << [path |-> "index.html", content |-> GetMarkup(markup.args)] >>
    /\ Len(written) <= 1
    /\ pc = "onBuildHtmlComplete" =>
         written = << [ absPath |-> <<"absOutputPath", "index.html">>,
                        content |-> GetMarkup(markup.args) ] >>

\* The default document has been written and nothing else.
C10_Witness ==
  /\ pc = "onBuildHtmlComplete"
  /\ frame.key = "modifyExportHTMLFiles"
  /\ frame.hs = <<>>
  /\ Len(written) = 1
  /\ ~config.mpa

\* C11: the size reporter is invoked at most once and only after
\* bundler.build returned; it has been invoked once the build returned in a
\* run whose configuration sets neither vite nor mako; and it is never
\* invoked when the backend that executed the build is vite or mako, so a
\* report exists only for a build the traditional backend ran.
C11_MeasureIffTraditional ==
  /\ Len(sizeReports) <= 1
  /\ sizeReports # <<>> =>
       /\ stats # Undefined
       /\ buildCalls[1].backend = "webpack"
  /\ ( /\ ~config.vite
       /\ ~config.mako
       /\ stats # Undefined
       /\ pc \notin {"measure", "failed"} ) => Len(sizeReports) = 1
  /\ ( /\ buildCalls # <<>>
       /\ buildCalls[1].backend \in {"vite", "mako"} ) => sizeReports = <<>>

\* C12: once opts has been composed (lines 105-131) its value changes in one
\* way only, by being bound to what the modifyUniBundlerOpts dispatch
\* resolved to; the onBeforeCompiler and modifyUniBundler dispatches carry
\* the current opts in their args and leave it as it is, and so does
\* bundler.build, whose argument is still the value of opts afterwards.
C12_OptsChangeOnlyByFold ==
  /\ [][ opts' # opts =>
           \/ /\ pc = "modifyEntry"
              /\ opts = Undefined
              /\ opts' = ComposeOpts(config, reactVersion, entry')
           \/ /\ pc = "modifyUniBundlerOpts"
              /\ frame.key = "modifyUniBundlerOpts"
              /\ frame.status = "returned"
              /\ opts' = DispatchResult(frame) ]_vars
  /\ []( frame.key \in {"onBeforeCompiler", "modifyUniBundler"}
           => frame.args.opts = opts )
  /\ []( buildCalls # <<>> => buildCalls[1].opts = opts )

\* A run that ended after a modifyUniBundlerOpts handler changed opts and a
\* modifyUniBundler handler and the build had received them.
C12_Witness ==
  /\ pc = "done"
  /\ opts.edits = <<1>>
  /\ buildCalls # <<>>
  /\ buildCalls[1].opts = opts

\* C13: the handlers of onBeforeCompiler are handed the options as composed,
\* before modifyUniBundlerOpts has run; opts is then bound to what the
\* modifyUniBundlerOpts dispatch resolved to and does not change again; the
\* one call of bundler.build is made after that with the value opts then has;
\* and the args of the onBuildHtmlComplete dispatch are that same value in
\* every field but htmlFiles, which holds the documents of the run.
C13_FinalOptsReachBuild ==
  /\ []( frame.key = "onBeforeCompiler" =>
           /\ frame.args.opts = ComposeOpts(config, reactVersion, entry)
           /\ \A i \in DOMAIN frame.calls :
                frame.calls[i].input.opts =
                  ComposeOpts(config, reactVersion, entry) )
  /\ []( (frame.key = "modifyUniBundlerOpts" /\ frame.status = "consumed")
           => opts = DispatchResult(frame) )
  /\ [][ (\E i \in DOMAIN finished : finished[i] = "modifyUniBundlerOpts")
           => opts' = opts ]_vars
  /\ [][ buildCalls' # buildCalls =>
           /\ \E i \in DOMAIN finished : finished[i] = "modifyUniBundlerOpts"
           /\ buildCalls' = << [backend |-> bundler.backend, opts |-> opts] >>
       ]_vars
  /\ []( frame.key = "onBuildHtmlComplete" =>
           /\ DOMAIN frame.args = DOMAIN opts
           /\ \A f \in DOMAIN opts \ {"htmlFiles"} : frame.args[f] = opts[f]
           /\ frame.args.htmlFiles = htmlFiles )

\* The build was called with options a modifyUniBundlerOpts handler changed,
\* and the completion dispatch has been handed them with a written document.
C13_Witness ==
  /\ frame.key = "onBuildHtmlComplete"
  /\ buildCalls # <<>>
  /\ buildCalls[1].opts.edits = <<1>>
  /\ frame.args.edits = <<1>>
  /\ frame.args.htmlFiles # <<>>

\* C14: in a run that is not mpa, from the moment the onBuildHtmlComplete
\* dispatch has started, the htmlFiles of its args are, element for element,
\* the documents the modifyExportHTMLFiles dispatch resolved to, each of them
\* has been written, in that order, to its path under the output directory,
\* and nothing is written any more.
C14_CompleteSeesWrittenDocs ==
  /\ []( ( /\ frame.key = "modifyExportHTMLFiles"
           /\ frame.status = "consumed" )
           => htmlFiles = DispatchResult(frame).docs )
  /\ [][ (pc \in {"write", "onBuildHtmlComplete"})
           => htmlFiles' = htmlFiles ]_vars
  /\ []( (frame.key = "onBuildHtmlComplete" /\ ~config.mpa) =>
           /\ frame.args.htmlFiles = htmlFiles
           /\ Len(written) = Len(htmlFiles)
           /\ \A i \in DOMAIN htmlFiles :
                written[i] = [ absPath |-> AbsPath(htmlFiles[i].path),
                               content |-> htmlFiles[i].content ] )
  /\ [][ frame.key = "onBuildHtmlComplete" => written' = written ]_vars

\* The completion dispatch is under way with the default document and two
\* plugin documents, all three written.
C14_Witness ==
  /\ frame.key = "onBuildHtmlComplete"
  /\ ~config.mpa
  /\ Len(frame.args.htmlFiles) = 3
  /\ frame.args.htmlFiles[3].path = "page2.html"
  /\ Len(written) = 3

\* C15: in an mpa run the HTML block is never entered: the markup arguments
\* are not computed, no markup is rendered, modifyExportHTMLFiles is not
\* dispatched, htmlFiles stays empty and no document is written; the
\* onBuildHtmlComplete dispatch is still made, with an empty htmlFiles, and a
\* run that has ended normally has made it exactly once.
C15_MpaSkipsHtml ==
  config.mpa =>
    /\ \A i \in DOMAIN started :
         started[i] \notin {"getMarkupArgs", "getMarkup",
                            "modifyExportHTMLFiles", "write"}
    /\ markup = Undefined
    /\ htmlFiles = <<>>
    /\ written = <<>>
    /\ frame.key # "modifyExportHTMLFiles"
    /\ frame.key = "onBuildHtmlComplete" => frame.args.htmlFiles = <<>>
    /\ pc = "done" =>
         Cardinality({ i \in DOMAIN started :
                         started[i] = "onBuildHtmlComplete" }) = 1

\* An mpa run that ended normally after its completion dispatch called a
\* handler.
C15_Witness ==
  /\ config.mpa
  /\ pc = "done"
  /\ frame.key = "onBuildHtmlComplete"
  /\ Len(frame.calls) >= 1
  /\ frame.calls[1].input.htmlFiles = <<>>

\* C16: the previous-size snapshot handed to the size reporter was measured
\* before bundler.build was called: no build call had been made when the
\* output directory was read.
C16_SnapshotBeforeBuild ==
  \A i \in DOMAIN sizeReports : sizeReports[i].previousSizeMap.builds = 0

C18_ModifyClosuresReturnFold ==
  /\ []( closure.name \in {"modifyWebpackConfig", "modifyViteConfig"} =>
           /\ inner.key = closure.name
           /\ inner.mode = "modify"
           /\ inner.init = closure.memo
           /\ inner.args = closure.args
           /\ closure.state = "returned" =>
                /\ inner.status = "consumed"
                /\ closure.result = DispatchResult(inner)
                /\ closure.result =
                     IF inner.hs = <<>> THEN closure.memo
                     ELSE inner.rets[Len(inner.hs)] )
  /\ [][ (closure'.called # closure.called /\ closure'.called # {})
         <=> ( /\ inner' # inner
               /\ inner'.calls = <<>>
               /\ inner'.status \in {"active", "returned"} ) ]_vars

\* modifyViteConfig has returned the configuration as two handlers changed it.
C18_Witness ==
  /\ closure.name = "modifyViteConfig"
  /\ closure.state = "returned"
  /\ closure.memo.edits = <<>>
  /\ closure.result.edits = <<1, 2>>

\* C20: the chainWebpack closure resolves to undefined whatever its memo, its
\* args and the handlers of its dispatch: what the handlers returned, and what
\* the dispatch resolved to, does not reach the backend.
C20_ChainWebpackReturnsNothing ==
  ( /\ closure.name = "chainWebpack"
    /\ closure.state = "returned" ) =>
    /\ closure.result = Undefined
    /\ inner.key = "chainWebpack"
    /\ inner.init = closure.memo
    /\ inner.status = "consumed"

\* chainWebpack has returned after a handler of its dispatch had returned an
\* accumulator other than memo.
C20_Witness ==
  /\ closure.name = "chainWebpack"
  /\ closure.state = "returned"
  /\ Len(inner.rets) = 2
  /\ DispatchResult(inner) # closure.memo
  /\ closure.result = Undefined

====
